---- MODULE Spec2Model ----
(***************************************************************************)
(* Model of the mcp-file-navigator server: the path-confinement function   *)
(* (FileService.resolveSafePath), the mutable base directory and the tool  *)
(* handlers that read and replace it.                                      *)
(*                                                                         *)
(* Strings are sequences of one-character strings, so that startsWith,     *)
(* includes, substring and the path library's segment handling are         *)
(* computed the way the code computes them.  The path library is Node's    *)
(* `path` module under POSIX semantics: "/" is the only separator and a    *)
(* backslash is an ordinary file-name character.                           *)
(***************************************************************************)
EXTENDS Integers, Sequences, FiniteSets, TLC

VARIABLES
    pRoot,      \* path resolution: the base directory handed to resolveSafePath
    pReq,       \* path resolution: the requested path
    pOut,       \* path resolution: what resolveSafePath returned or threw
    pPc,        \* path resolution: "call" before the call, "done" after it
    fileRoot,   \* FileService.baseDirectory
    gitRoot,    \* GitService.baseDirectory
    fsys,       \* the file system: location -> [isDir, content]
    calls,      \* the tool calls in flight or last answered, one per slot
    issued,     \* number of tool calls received so far
    lastSet,    \* history: the path of the last set_base_directory that
                \* answered success (the startup directory before any)
    lastWrite,  \* history: the last write_file that answered success
    gCommand,   \* command building: the command handed to executeGitCommand
    gShell,     \* command building: the shell selector ("" when it is unset)
    gOut,       \* command building: the command line built, or the rejection
    gPc,        \* command building: "call" before the call, "done" after it
    BASE_DIRECTORY, \* single-file server: its module-level base directory
    sFsys,      \* single-file server: the file system it runs on
    sCalls      \* single-file server: its tool calls, one per slot

pathVars == <<pRoot, pReq, pOut, pPc>>
cmdVars == <<gCommand, gShell, gOut, gPc>>
serverVars == <<fileRoot, gitRoot, fsys, calls, issued, lastSet, lastWrite>>
singleVars == <<BASE_DIRECTORY, sFsys, sCalls>>
vars == <<pRoot, pReq, pOut, pPc, gCommand, gShell, gOut, gPc,
          fileRoot, gitRoot, fsys, calls, issued, lastSet, lastWrite,
          BASE_DIRECTORY, sFsys, sCalls>>

(***************************************************************************)
(* Bounds of the model.                                                    *)
(***************************************************************************)
\* longest requested path drawn for the path-resolution specification
MaxLen == 4
\* longest base directory drawn for the path-resolution specification
MaxRootLen == 3
\* tool calls that may be in flight at the same time
MaxInflight == 2
\* tool calls received in one run of the server
MaxCalls == 2

(***************************************************************************)
(* Characters and strings.                                                 *)
(***************************************************************************)
Chars == {"/", "\\", ".", "a"}

IsSlash(c) == c = "/" \/ c = "\\"

DotDot == <<".", ".">>

\* every string over Chars of length at most n
StringsUpTo(n) == UNION {[1..k -> Chars] : k \in 0..n}

\* String.prototype.startsWith
StartsWith(s, prefix) ==
    /\ Len(s) >= Len(prefix)
    /\ SubSeq(s, 1, Len(prefix)) = prefix

\* String.prototype.includes
Includes(s, sub) ==
    \E i \in 1..(Len(s) - Len(sub) + 1) : SubSeq(s, i, i + Len(sub) - 1) = sub

(***************************************************************************)
(* Node's path module, POSIX flavour.                                      *)
(***************************************************************************)
RECURSIVE SplitFrom(_, _, _)
SplitFrom(s, i, cur) ==
    IF i > Len(s) THEN <<cur>>
    ELSE IF s[i] = "/" THEN <<cur>> \o SplitFrom(s, i + 1, <<>>)
    ELSE SplitFrom(s, i + 1, Append(cur, s[i]))

\* the segments of s between separators, empty ones included
Split(s) == SplitFrom(s, 1, <<>>)

RECURSIVE JoinSegs(_)
JoinSegs(segs) ==
    IF Len(segs) = 0 THEN <<>>
    ELSE IF Len(segs) = 1 THEN segs[1]
    ELSE segs[1] \o <<"/">> \o JoinSegs(Tail(segs))

\* normalizeString: drops empty and "." segments, resolves ".." against the
\* segment before it; a ".." with nothing to resolve against is kept when
\* allowAboveRoot and dropped otherwise
RECURSIVE NormSegs(_, _, _, _)
NormSegs(segs, i, res, allowAboveRoot) ==
    IF i > Len(segs) THEN res
    ELSE LET g == segs[i] IN
         IF g = <<>> \/ g = <<".">>
         THEN NormSegs(segs, i + 1, res, allowAboveRoot)
         ELSE IF g = DotDot
         THEN IF Len(res) > 0 /\ res[Len(res)] # DotDot
              THEN NormSegs(segs, i + 1, SubSeq(res, 1, Len(res) - 1), allowAboveRoot)
              ELSE IF allowAboveRoot
              THEN NormSegs(segs, i + 1, Append(res, g), allowAboveRoot)
              ELSE NormSegs(segs, i + 1, res, allowAboveRoot)
         ELSE NormSegs(segs, i + 1, Append(res, g), allowAboveRoot)

\* path.isAbsolute
PathIsAbsolute(p) == Len(p) > 0 /\ p[1] = "/"

\* a normalize that resolves a leading ".." against nothing and drops it
PathNormalize_dropsLeadingParent(p) ==
    IF Len(p) = 0 THEN <<".">>
    ELSE LET trailing == p[Len(p)] = "/"
             body == JoinSegs(NormSegs(Split(p), 1, <<>>, FALSE))
         IN  IF Len(body) = 0
             THEN IF PathIsAbsolute(p) THEN <<"/">>
                  ELSE IF trailing THEN <<".", "/">> ELSE <<".">>
             ELSE LET t == IF trailing THEN body \o <<"/">> ELSE body
                  IN  IF PathIsAbsolute(p) THEN <<"/">> \o t ELSE t

\* path.normalize
PathNormalize(p) ==
    IF Len(p) = 0 THEN <<".">>
    ELSE LET trailing == p[Len(p)] = "/"
             body == JoinSegs(NormSegs(Split(p), 1, <<>>, ~PathIsAbsolute(p)))
         IN  IF Len(body) = 0
             THEN IF PathIsAbsolute(p) THEN <<"/">>
                  ELSE IF trailing THEN <<".", "/">> ELSE <<".">>
             ELSE LET t == IF trailing THEN body \o <<"/">> ELSE body
                  IN  IF PathIsAbsolute(p) THEN <<"/">> \o t ELSE t

\* path.join of two arguments
PathJoin(a, b) ==
    IF Len(a) = 0 /\ Len(b) = 0 THEN <<".">>
    ELSE IF Len(a) = 0 THEN PathNormalize(b)
    ELSE IF Len(b) = 0 THEN PathNormalize(a)
    ELSE PathNormalize(a \o <<"/">> \o b)

\* the segments of path.resolve(p); the working directory of the process is
\* taken to be "/" for a relative p
ResolveSegs(p) == NormSegs(Split(p), 1, <<>>, FALSE)

RECURSIVE CommonLen(_, _)
CommonLen(xs, ys) ==
    IF Len(xs) = 0 \/ Len(ys) = 0 \/ xs[1] # ys[1] THEN 0
    ELSE 1 + CommonLen(Tail(xs), Tail(ys))

\* path.relative
PathRelative(from, to) ==
    IF from = to THEN <<>>
    ELSE LET f == ResolveSegs(from)
             t == ResolveSegs(to)
             k == CommonLen(f, t)
             ups == [j \in 1..(Len(f) - k) |-> DotDot]
         IN  JoinSegs(ups \o SubSeq(t, k + 1, Len(t)))

\* path.dirname: the scan runs from the last character down to the second
\* one, skips trailing separators and the last segment, and cuts at the
\* separator before it
PathDirname(p) ==
    IF Len(p) = 0 THEN <<".">>
    ELSE LET hasRoot == p[1] = "/"
             names == {i \in 2..Len(p) : p[i] # "/"}
             e == IF names = {} THEN 0 ELSE CHOOSE i \in names : \A j \in names : j <= i
             seps == {i \in 2..e : p[i] = "/"}
         IN  IF seps = {} THEN (IF hasRoot THEN <<"/">> ELSE <<".">>)
             ELSE LET s == CHOOSE i \in seps : \A j \in seps : j <= i
                  IN  IF hasRoot /\ s = 2 THEN <<"/", "/">> ELSE SubSeq(p, 1, s - 1)

(***************************************************************************)
(* FileService.resolveSafePath                                             *)
(***************************************************************************)
\* strips "/" only
StripLeading_forwardOnly(s) ==
    LET keep == {i \in 1..Len(s) : s[i] # "/"}
    IN  IF keep = {} THEN <<>>
        ELSE SubSeq(s, CHOOSE i \in keep : \A j \in keep : i <= j, Len(s))

\* the while loop that strips leading slash and backslash characters
StripLeading(s) ==
    LET keep == {i \in 1..Len(s) : ~IsSlash(s[i])}
    IN  IF keep = {} THEN <<>>
        ELSE SubSeq(s, CHOOSE i \in keep : \A j \in keep : i <= j, Len(s))

\* the early return handles the empty path only
IsRootRequest_emptyOnly(requestedPath) == requestedPath = <<>>

\* !requestedPath || requestedPath === '/' || requestedPath === '\\'
IsRootRequest(requestedPath) ==
    \/ requestedPath = <<>>
    \/ requestedPath = <<"/">>
    \/ requestedPath = <<"\\">>

Resolved(p) == [ok |-> TRUE, path |-> p, err |-> "none"]
Rejected(e) == [ok |-> FALSE, path |-> <<>>, err |-> e]

\* resolveSafePath with both traversal checks left out
resolveSafePath_unchecked(baseDirectory, requestedPath) ==
    IF IsRootRequest(requestedPath) THEN Resolved(baseDirectory)
    ELSE Resolved(PathJoin(baseDirectory, PathNormalize(StripLeading(requestedPath))))

\* a resolveSafePath without the test for '..' in the normalized path, so
\* that only the test after the join can reject
resolveSafePath_secondOnly(baseDirectory, requestedPath) ==
    IF IsRootRequest(requestedPath) THEN Resolved(baseDirectory)
    ELSE LET normalizedPath == PathNormalize(StripLeading(requestedPath))
             absolutePath == PathJoin(baseDirectory, normalizedPath)
             relativePath == PathRelative(baseDirectory, absolutePath)
         IN  IF StartsWith(relativePath, DotDot) \/ PathIsAbsolute(relativePath)
             THEN Rejected("Path resolves outside the base directory")
             ELSE Resolved(absolutePath)

resolveSafePath(baseDirectory, requestedPath) ==
    IF IsRootRequest(requestedPath) THEN Resolved(baseDirectory)
    ELSE LET cleanPath == StripLeading(requestedPath)
             normalizedPath == PathNormalize(cleanPath)
         IN  IF Includes(normalizedPath, DotDot)
             THEN Rejected("Directory traversal attempt detected")
             ELSE LET absolutePath == PathJoin(baseDirectory, normalizedPath)
                      relativePath == PathRelative(baseDirectory, absolutePath)
                  IN  IF StartsWith(relativePath, DotDot) \/ PathIsAbsolute(relativePath)
                      THEN Rejected("Path resolves outside the base directory")
                      ELSE Resolved(absolutePath)

NotCalled == [ok |-> FALSE, path |-> <<>>, err |-> "not called"]

(***************************************************************************)
(* The file system.  A location is the sequence of names that an absolute  *)
(* path leads through; the file-system root is the empty sequence.         *)
(***************************************************************************)
DirNode == [isDir |-> TRUE, content |-> <<>>]
FileNode(c) == [isDir |-> FALSE, content |-> c]

\* where the operating system looks for an absolute path
Loc(p) == ResolveSegs(p)

Exists(f, l) == l \in DOMAIN f
IsDir(f, l) == l \in DOMAIN f /\ f[l].isDir
IsFile(f, l) == l \in DOMAIN f /\ ~f[l].isDir

Prefixes(l) == {SubSeq(l, 1, k) : k \in 0..Len(l)}

\* fs.mkdir(path, { recursive: true }) succeeds unless a file is in the way
CanMkdir(f, l) == \A a \in Prefixes(l) : ~IsFile(f, a)

MkdirP(f, l) ==
    [x \in DOMAIN f \cup Prefixes(l) |-> IF x \in DOMAIN f THEN f[x] ELSE DirNode]

\* fs.readdir(path, { withFileTypes: true }), mapped to { name, isDirectory }
Readdir(f, l) ==
    {[name |-> x[Len(x)], isDirectory |-> f[x].isDir] :
        x \in {y \in DOMAIN f : Len(y) = Len(l) + 1 /\ SubSeq(y, 1, Len(l)) = l}}

\* The 'utf8' encoding of fs.writeFile and fs.readFile.  A string is a
\* sequence of characters, of which "HS" stands for an unpaired surrogate
\* and "FFFD" for the replacement character; a file holds bytes, of which
\* "EFBFBD" stands for the three bytes of the replacement character.  An
\* unpaired surrogate is encoded as the replacement character.
Utf8Encode(c) ==
    [k \in 1..Len(c) |-> IF c[k] \in {"HS", "FFFD"} THEN "EFBFBD" ELSE c[k]]

Utf8Decode(b) ==
    [k \in 1..Len(b) |-> IF b[k] = "EFBFBD" THEN "FFFD" ELSE b[k]]

\* fs.writeFile(path, content, 'utf8') creates or truncates a file in an
\* existing directory
CanWriteFile(f, p) ==
    LET l == Loc(p) IN
    /\ Len(l) > 0
    /\ p[Len(p)] # "/"
    /\ ~IsDir(f, l)
    /\ IsDir(f, SubSeq(l, 1, Len(l) - 1))

\* a write that adds the content to what the file held
PutFile_appends(f, l, c) ==
    [x \in DOMAIN f \cup {l} |->
        IF x # l THEN f[x]
        ELSE IF IsFile(f, l) THEN FileNode(f[l].content \o c) ELSE FileNode(c)]

PutFile(f, l, c) ==
    [x \in DOMAIN f \cup {l} |-> IF x = l THEN FileNode(c) ELSE f[x]]

\* a removal that takes the entry alone and leaves what is under it
Remove_onlyTarget(f, l) == [x \in DOMAIN f \ {l} |-> f[x]]

\* fs.rm(path, { recursive: true, force: true }) and fs.unlink(path)
Remove(f, l) ==
    [x \in {y \in DOMAIN f : ~(Len(y) >= Len(l) /\ SubSeq(y, 1, Len(l)) = l)} |-> f[x]]

(***************************************************************************)
(* GitService.isValidGitCommand                                            *)
(***************************************************************************)
IsSpace(c) == c \in {" ", "\t", "\n"}

\* String.prototype.trim
Trim(s) ==
    LET keep == {i \in 1..Len(s) : ~IsSpace(s[i])}
    IN  IF keep = {} THEN <<>>
        ELSE SubSeq(s, CHOOSE i \in keep : \A j \in keep : i <= j,
                       CHOOSE i \in keep : \A j \in keep : j <= i)

blockedCommands ==
    { <<"c", "o", "n", "f", "i", "g">>,
      <<"c", "l", "e", "a", "n", " ", "-", "x", "d", "f">> }

\* a validator that tests the command as given, without trimming it
isValidGitCommand_untrimmed(command) ==
    /\ \A i \in 1..Len(command) : command[i] \notin {";", "&", "|", ">", "<"}
    /\ \A b \in blockedCommands : ~StartsWith(command, b)

\* GitService.isValidGitCommand
isValidGitCommand(command) ==
    LET trimmedCommand == Trim(command) IN
    /\ \A i \in 1..Len(trimmedCommand) : trimmedCommand[i] \notin {";", "&", "|"}
    /\ \A i \in 1..Len(trimmedCommand) : trimmedCommand[i] \notin {">", "<"}
    /\ \A b \in blockedCommands : ~StartsWith(trimmedCommand, b)

\* GitService.getShellPrefix
getShellPrefix(shell) ==
    CASE shell = "cmd" -> <<"c", "m", "d", " ", "/", "c">>
      [] shell = "powershell" ->
            <<"p", "o", "w", "e", "r", "s", "h", "e", "l", "l", " ",
              "-", "C", "o", "m", "m", "a", "n", "d">>
      [] shell = "bash" -> <<"b", "a", "s", "h", " ", "-", "c">>
      [] OTHER -> <<>>

\* command.replace(/"/g, '\\"'): a backslash before every double quote
RECURSIVE EscapeQuotes(_)
EscapeQuotes(s) ==
    IF s = <<>> THEN <<>>
    ELSE (IF Head(s) = "\"" THEN <<"\\", "\"">> ELSE <<Head(s)>>) \o EscapeQuotes(Tail(s))

GitWord == <<"g", "i", "t", " ">>

\* the command line executeGitCommand builds; `if (shell)` is false for an
\* unset selector and for the empty string, both written ""
fullCommand(command, shell) ==
    IF shell # ""
    THEN getShellPrefix(shell) \o <<" ", "\"">> \o GitWord \o EscapeQuotes(command) \o <<"\"">>
    ELSE GitWord \o command

NotBuilt == [ok |-> FALSE, line |-> <<>>, err |-> "not called"]

\* GitService.executeGitCommand up to its await: the command line handed to
\* exec, or the error thrown
executeGitCommand(command, shell) ==
    IF ~isValidGitCommand(command)
    THEN [ok |-> FALSE, line |-> <<>>, err |-> "Invalid git command"]
    ELSE [ok |-> TRUE, line |-> fullCommand(command, shell), err |-> "none"]

(***************************************************************************)
(* The server: FileService, GitService and the tool handlers of            *)
(* ToolService.  A handler runs from its call to its first await in one    *)
(* step; each awaited file-system or subprocess primitive takes effect     *)
(* and resumes the handler in one later step, so other calls interleave    *)
(* at every await.                                                         *)
(***************************************************************************)
Slots == 1..MaxInflight

\* the base directory the server starts with, and the arguments drawn for
\* the tool calls
StartupRoot == <<"/", "r">>
SetArgs == { <<"/", "r", "/", "a">>, <<"/", "s">>, <<"r">> }
PathArgs == { <<>>, <<"a">>, <<"a", "/", "b">>, <<".", ".", "/", "s">> }
Contents == { <<"x">>, <<"HS">> }
Commands == { <<"s", "t", "a", "t", "u", "s">>, <<"c", "o", "n", "f", "i", "g">> }
\* the selector left out, and one of the three the tool's schema admits
Shells == {"", "bash"}

\* a response: its text is `text`, then the interpolated path, error message,
\* listing or file content
NoResp ==
    [kind |-> "none", text |-> "", detail |-> "", path |-> <<>>, entries |-> {}, content |-> <<>>]
Answer(k, t, d, p) ==
    [kind |-> k, text |-> t, detail |-> d, path |-> p, entries |-> {}, content |-> <<>>]

IdleCall ==
    [ id |-> 0, op |-> "none", arg |-> <<>>, content |-> <<>>, pc |-> "idle",
      res |-> NotCalled, shell |-> "", line |-> <<>>, cwd |-> <<>>, oldPath |-> <<>>,
      startRoot |-> <<>>, touched |-> {}, log |-> <<>>, resp |-> NoResp ]

\* a handler that logs nothing when it is called
NewCall_silent(o, a, c) ==
    [ id |-> issued + 1, op |-> o, arg |-> a, content |-> c, pc |-> "idle",
      res |-> NotCalled, shell |-> "", line |-> <<>>, cwd |-> <<>>, oldPath |-> <<>>,
      startRoot |-> lastSet, touched |-> {}, log |-> <<>>, resp |-> NoResp ]

\* a call record as the handler leaves it at its first await (or at its
\* return, if it never awaits); startRoot and touched are history
NewCall(o, a, c) ==
    [ id |-> issued + 1, op |-> o, arg |-> a, content |-> c, pc |-> "idle",
      res |-> NotCalled, shell |-> "", line |-> <<>>, cwd |-> <<>>, oldPath |-> <<>>,
      startRoot |-> lastSet, touched |-> {}, log |-> <<"called">>, resp |-> NoResp ]

\* a call is taken into the lowest slot that holds no call in flight
Free(i) ==
    /\ issued < MaxCalls
    /\ calls[i].pc \in {"idle", "done"}
    /\ \A j \in 1..(i - 1) : calls[j].pc \notin {"idle", "done"}

\* history: the primitive, the path handed to it and the base directory
\* stored at that moment
Touch(c, prim, p) == c.touched \cup {[prim |-> prim, path |-> p, root |-> fileRoot]}

Logged(c, m) == Append(c.log, m)

\* a catch block that logs and throws again: the exception leaves the
\* handler
Caught_rethrows(c, prefix, m) ==
    [c EXCEPT !.pc = "thrown", !.log = Append(c.log, "Error in handler")]

\* the handler's catch block: log the error, answer with an error text
Caught(c, prefix, m) ==
    [c EXCEPT !.pc = "done",
              !.log = Append(c.log, "Error in handler"),
              !.resp = Answer("error", prefix, m, <<>>)]

\* resolveSafePath's own catch block logs and rethrows
Escaped(c, r, prefix) ==
    Caught([c EXCEPT !.res = r, !.log = Append(c.log, "Path resolution error")],
           prefix, r.err)

\* what fs.stat finds at a path
Lookup(f, p) ==
    LET l == Loc(p) IN
    IF ~Exists(f, l) THEN "missing"
    ELSE IF f[l].isDir THEN "dir"
    ELSE IF p[Len(p)] = "/" THEN "missing"
    ELSE "file"

\* a setter that leaves the stored directory as it was
FileService_setBaseDirectory_keepsOld(old, newBaseDir) == old

\* FileService.setBaseDirectory
FileService_setBaseDirectory(old, newBaseDir) == newBaseDir

\* a GitService whose setter leaves its directory as it was
GitService_setBaseDirectory_keepsOld(old, newBaseDir) == old

\* GitService.setBaseDirectory
GitService_setBaseDirectory(old, newBaseDir) == newBaseDir

\* what the startup directory holds when the server starts: nothing, a
\* file "a", or a directory "a" with a file "b" in it
BareTree == [l \in Prefixes(Loc(StartupRoot)) |-> DirNode]

StartupTrees ==
    LET r == Loc(StartupRoot) IN
    { BareTree,
      PutFile(BareTree, Append(r, <<"a">>), <<"y">>),
      PutFile(MkdirP(BareTree, Append(r, <<"a">>)), r \o << <<"a">>, <<"b">> >>, <<"y">>) }

NoWrite == [id |-> 0, arg |-> <<>>, path |-> <<>>, content |-> <<>>, alone |-> FALSE]

\* the server as startMcpServer leaves it, on the tree f
ServerStarted(f) ==
    /\ fileRoot = StartupRoot
    /\ gitRoot = StartupRoot
    /\ fsys = f
    /\ calls = [i \in Slots |-> IdleCall]
    /\ issued = 0
    /\ lastSet = StartupRoot
    /\ lastWrite = NoWrite

(***************************************************************************)
(* The single-file server: one module with the base directory in the       *)
(* module-level variable BASE_DIRECTORY and the six file tools as inline   *)
(* handlers.  Its state is kept apart from the service-based server's; it  *)
(* uses the same path library and the same file-system primitives.  As     *)
(* above, a handler's code between two awaits is one step.                 *)
(***************************************************************************)
SingleIdle ==
    [op |-> "none", arg |-> <<>>, content |-> <<>>, pc |-> "idle",
     safePath |-> <<>>, resp |-> NoResp]

\* a call record as the handler finds it when it is called
SingleCall(o, a, c) ==
    [op |-> o, arg |-> a, content |-> c, pc |-> "idle", safePath |-> <<>>, resp |-> NoResp]

\* the single-file server as its startMcpServer leaves it, on the tree f
startMcpServer(f) ==
    /\ BASE_DIRECTORY = StartupRoot
    /\ sFsys = f
    /\ sCalls = [i \in Slots |-> SingleIdle]

InitServer == \E f \in StartupTrees : ServerStarted(f)

Init ==
    /\ InitServer
    /\ startMcpServer(BareTree)
    /\ pRoot = StartupRoot /\ pReq = <<>> /\ pOut = NotCalled /\ pPc = "off"
    /\ gCommand = <<>> /\ gShell = "" /\ gOut = NotBuilt /\ gPc = "off"

(***************************************************************************)
(* set_base_directory                                                      *)
(***************************************************************************)
\* the handler without its path.isAbsolute test
SetBaseDirectory_call_unchecked(i, newBasePath) ==
    /\ Free(i)
    /\ calls' = [calls EXCEPT ![i] =
           [NewCall("set_base_directory", newBasePath, <<>>) EXCEPT !.pc = "mkdir"]]
    /\ issued' = issued + 1
    /\ UNCHANGED <<fileRoot, gitRoot, fsys, lastSet, lastWrite, pathVars, cmdVars>>

SetBaseDirectory_call(i, newBasePath) ==
    /\ Free(i)
    /\ LET c == NewCall("set_base_directory", newBasePath, <<>>) IN
       calls' = [calls EXCEPT ![i] =
           IF ~PathIsAbsolute(newBasePath)
           THEN [c EXCEPT !.pc = "done",
                          !.resp = Answer("error",
                              "Error: Path must be absolute. Please provide a full path.",
                              "", <<>>)]
           ELSE [c EXCEPT !.pc = "mkdir"]]
    /\ issued' = issued + 1
    /\ UNCHANGED <<fileRoot, gitRoot, fsys, lastSet, lastWrite, pathVars, cmdVars>>

\* the handler adopting the new base directory whatever ensureDirectoryExists
\* returned
SetBaseDirectory_mkdir_adoptsAnyway(i) ==
    LET c == calls[i]
        l == Loc(c.arg)
        made == CanMkdir(fsys, l)
    IN  /\ c.op = "set_base_directory" /\ c.pc = "mkdir"
        /\ fsys' = IF made THEN MkdirP(fsys, l) ELSE fsys
        /\ fileRoot' = FileService_setBaseDirectory(fileRoot, c.arg)
        /\ gitRoot' = GitService_setBaseDirectory(gitRoot, c.arg)
        /\ lastSet' = c.arg
        /\ calls' = [calls EXCEPT ![i] =
               [c EXCEPT !.pc = "done",
                         !.touched = Touch(c, "mkdir", c.arg),
                         !.oldPath = fileRoot,
                         !.log = c.log \o <<"Directory ensured at", "Base directory changed">>,
                         !.resp = Answer("ok", "Base directory successfully set to: ", "", c.arg)]]
        /\ UNCHANGED <<issued, lastWrite, pathVars, cmdVars>>

\* a handler that hands the new base directory to FileService alone
SetBaseDirectory_mkdir_fileOnly(i) ==
    LET c == calls[i]
        l == Loc(c.arg)
    IN  /\ c.op = "set_base_directory" /\ c.pc = "mkdir"
        /\ IF CanMkdir(fsys, l)
           THEN /\ fsys' = MkdirP(fsys, l)
                /\ fileRoot' = FileService_setBaseDirectory(fileRoot, c.arg)
                /\ lastSet' = c.arg
                /\ calls' = [calls EXCEPT ![i] =
                       [c EXCEPT !.pc = "done",
                                 !.touched = Touch(c, "mkdir", c.arg),
                                 !.oldPath = fileRoot,
                                 !.log = c.log \o <<"Directory ensured at", "Base directory changed">>,
                                 !.resp = Answer("ok", "Base directory successfully set to: ", "", c.arg)]]
                /\ UNCHANGED gitRoot
           ELSE /\ calls' = [calls EXCEPT ![i] =
                       [c EXCEPT !.pc = "done",
                                 !.touched = Touch(c, "mkdir", c.arg),
                                 !.log = Logged(c, "Error ensuring directory"),
                                 !.resp = Answer("error",
                                     "Error: Could not create or access directory at: ", "", c.arg)]]
                /\ UNCHANGED <<fsys, fileRoot, gitRoot, lastSet>>
        /\ UNCHANGED <<issued, lastWrite, pathVars, cmdVars>>

\* a handler that has read the old base directory before its await
SetBaseDirectory_mkdir_earlyOld(i) ==
    LET c == calls[i]
        l == Loc(c.arg)
    IN  /\ c.op = "set_base_directory" /\ c.pc = "mkdir"
        /\ IF CanMkdir(fsys, l)
           THEN /\ fsys' = MkdirP(fsys, l)
                /\ fileRoot' = FileService_setBaseDirectory(fileRoot, c.arg)
                /\ gitRoot' = GitService_setBaseDirectory(gitRoot, c.arg)
                /\ lastSet' = c.arg
                /\ calls' = [calls EXCEPT ![i] =
                       [c EXCEPT !.pc = "done",
                                 !.touched = Touch(c, "mkdir", c.arg),
                                 !.oldPath = c.startRoot,
                                 !.log = c.log \o <<"Directory ensured at", "Base directory changed">>,
                                 !.resp = Answer("ok", "Base directory successfully set to: ", "", c.arg)]]
           ELSE /\ calls' = [calls EXCEPT ![i] =
                       [c EXCEPT !.pc = "done",
                                 !.touched = Touch(c, "mkdir", c.arg),
                                 !.log = Logged(c, "Error ensuring directory"),
                                 !.resp = Answer("error",
                                     "Error: Could not create or access directory at: ", "", c.arg)]]
                /\ UNCHANGED <<fsys, fileRoot, gitRoot, lastSet>>
        /\ UNCHANGED <<issued, lastWrite, pathVars, cmdVars>>

\* ensureDirectoryExists settles, then the rest of the handler runs
SetBaseDirectory_mkdir(i) ==
    LET c == calls[i]
        l == Loc(c.arg)
    IN  /\ c.op = "set_base_directory" /\ c.pc = "mkdir"
        /\ IF CanMkdir(fsys, l)
           THEN /\ fsys' = MkdirP(fsys, l)
                /\ fileRoot' = FileService_setBaseDirectory(fileRoot, c.arg)
                /\ gitRoot' = GitService_setBaseDirectory(gitRoot, c.arg)
                /\ lastSet' = c.arg
                /\ calls' = [calls EXCEPT ![i] =
                       [c EXCEPT !.pc = "done",
                                 !.touched = Touch(c, "mkdir", c.arg),
                                 !.oldPath = fileRoot,
                                 !.log = c.log \o <<"Directory ensured at", "Base directory changed">>,
                                 !.resp = Answer("ok", "Base directory successfully set to: ", "", c.arg)]]
           ELSE /\ calls' = [calls EXCEPT ![i] =
                       [c EXCEPT !.pc = "done",
                                 !.touched = Touch(c, "mkdir", c.arg),
                                 !.log = Logged(c, "Error ensuring directory"),
                                 !.resp = Answer("error",
                                     "Error: Could not create or access directory at: ", "", c.arg)]]
                /\ UNCHANGED <<fsys, fileRoot, gitRoot, lastSet>>
        /\ UNCHANGED <<issued, lastWrite, pathVars, cmdVars>>

(***************************************************************************)
(* get_base_directory                                                      *)
(***************************************************************************)
GetBaseDirectory(i) ==
    /\ Free(i)
    /\ calls' = [calls EXCEPT ![i] =
           [NewCall("get_base_directory", <<>>, <<>>) EXCEPT
               !.pc = "done",
               !.resp = Answer("ok", "Current BASE_DIRECTORY: ", "", fileRoot)]]
    /\ issued' = issued + 1
    /\ UNCHANGED <<fileRoot, gitRoot, fsys, lastSet, lastWrite, pathVars, cmdVars>>

(***************************************************************************)
(* The handlers that take a path: each calls resolveSafePath before its    *)
(* first await.                                                            *)
(***************************************************************************)
\* a handler that goes on to its first primitive with the joined path when
\* resolveSafePath has thrown
PathCall_unguarded(i, o, requestedPath, content, firstPc, prefix) ==
    /\ Free(i)
    /\ LET c == NewCall(o, requestedPath, content)
           r == resolveSafePath(fileRoot, requestedPath)
       IN  calls' = [calls EXCEPT ![i] =
               [c EXCEPT !.res = IF r.ok THEN r
                                 ELSE Resolved(PathJoin(fileRoot, requestedPath)),
                         !.pc = firstPc]]
    /\ issued' = issued + 1
    /\ UNCHANGED <<fileRoot, gitRoot, fsys, lastSet, lastWrite, pathVars, cmdVars>>

PathCall(i, o, requestedPath, content, firstPc, prefix) ==
    /\ Free(i)
    /\ LET c == NewCall(o, requestedPath, content)
           r == resolveSafePath(fileRoot, requestedPath)
       IN  calls' = [calls EXCEPT ![i] =
               IF r.ok THEN [c EXCEPT !.res = r, !.pc = firstPc]
               ELSE Escaped(c, r, prefix)]
    /\ issued' = issued + 1
    /\ UNCHANGED <<fileRoot, gitRoot, fsys, lastSet, lastWrite, pathVars, cmdVars>>

\* a step of call i that leaves the file system and the base directory alone
Resume(i, c) ==
    /\ calls' = [calls EXCEPT ![i] = c]
    /\ UNCHANGED <<fileRoot, gitRoot, fsys, lastSet, lastWrite, issued, pathVars, cmdVars>>

\* a step of call i that changes the file system
ResumeFs(i, c, f) ==
    /\ calls' = [calls EXCEPT ![i] = c]
    /\ fsys' = f
    /\ UNCHANGED <<fileRoot, gitRoot, lastSet, lastWrite, issued, pathVars, cmdVars>>

\* the step in which write_file answers success; the history keeps which
\* call it was, what it wrote where, and whether it was the latest call
\* received and the only one in flight at that moment
Written(i, c, f) ==
    /\ calls' = [calls EXCEPT ![i] = c]
    /\ fsys' = f
    /\ lastWrite' = [ id |-> c.id, arg |-> c.arg, path |-> c.res.path,
                      content |-> c.content,
                      alone |-> /\ issued = c.id
                                /\ \A j \in Slots \ {i} : calls[j].pc \in {"idle", "done"} ]
    /\ UNCHANGED <<fileRoot, gitRoot, lastSet, issued, pathVars, cmdVars>>

ListFiles_call(i, directory) ==
    PathCall(i, "list_files", directory, <<>>, "readdir", "Error listing files: ")

ListFiles_readdir(i) ==
    LET c == calls[i]
        p == c.res.path
        t == [c EXCEPT !.touched = Touch(c, "readdir", p)]
    IN  /\ c.op = "list_files" /\ c.pc = "readdir"
        /\ IF Lookup(fsys, p) = "dir"
           THEN Resume(i, [t EXCEPT !.pc = "done",
                    !.resp = [Answer("ok", "Files in ", "", c.arg) EXCEPT
                                 !.entries = Readdir(fsys, Loc(p))]])
           ELSE Resume(i, Caught(t, "Error listing files: ",
                    IF Lookup(fsys, p) = "file" THEN "ENOTDIR" ELSE "ENOENT"))

ReadFile_call(i, filePath) ==
    PathCall(i, "read_file", filePath, <<>>, "stat", "Error reading file: ")

ReadFile_stat(i) ==
    LET c == calls[i]
        p == c.res.path
        t == [c EXCEPT !.touched = Touch(c, "stat", p)]
    IN  /\ c.op = "read_file" /\ c.pc = "stat"
        /\ IF Lookup(fsys, p) = "missing"
           THEN Resume(i, Caught(t, "Error reading file: ", "ENOENT"))
           ELSE Resume(i, [t EXCEPT !.pc =
                    IF Lookup(fsys, p) = "dir" THEN "readdir" ELSE "readFile"])

\* a read_file that lists the names and tags every entry as a file
ReadFile_readdir_untagged(i) ==
    LET c == calls[i]
        p == c.res.path
        t == [c EXCEPT !.touched = Touch(c, "readdir", p)]
    IN  /\ c.op = "read_file" /\ c.pc = "readdir"
        /\ IF Lookup(fsys, p) = "dir"
           THEN Resume(i, [t EXCEPT !.pc = "done",
                    !.resp = [Answer("ok", "Directory: ", "", c.arg) EXCEPT
                                 !.entries = {[name |-> e.name, isDirectory |-> FALSE] :
                                                 e \in Readdir(fsys, Loc(p))}]])
           ELSE Resume(i, Caught(t, "Error reading file: ",
                    IF Lookup(fsys, p) = "file" THEN "ENOTDIR" ELSE "ENOENT"))

ReadFile_readdir(i) ==
    LET c == calls[i]
        p == c.res.path
        t == [c EXCEPT !.touched = Touch(c, "readdir", p)]
    IN  /\ c.op = "read_file" /\ c.pc = "readdir"
        /\ IF Lookup(fsys, p) = "dir"
           THEN Resume(i, [t EXCEPT !.pc = "done",
                    !.resp = [Answer("ok", "Directory: ", "", c.arg) EXCEPT
                                 !.entries = Readdir(fsys, Loc(p))]])
           ELSE Resume(i, Caught(t, "Error reading file: ",
                    IF Lookup(fsys, p) = "file" THEN "ENOTDIR" ELSE "ENOENT"))

ReadFile_readFile(i) ==
    LET c == calls[i]
        p == c.res.path
        t == [c EXCEPT !.touched = Touch(c, "readFile", p)]
    IN  /\ c.op = "read_file" /\ c.pc = "readFile"
        /\ IF Lookup(fsys, p) = "file"
           THEN Resume(i, [t EXCEPT !.pc = "done",
                    !.resp = [Answer("ok", "File: ", "", c.arg) EXCEPT
                                 !.content = Utf8Decode(fsys[Loc(p)].content)]])
           ELSE Resume(i, Caught(t, "Error reading file: ",
                    IF Lookup(fsys, p) = "dir" THEN "EISDIR" ELSE "ENOENT"))

WriteFile_call(i, filePath, content) ==
    PathCall(i, "write_file", filePath, content, "mkdir", "Error writing file: ")

WriteFile_mkdir(i) ==
    LET c == calls[i]
        dirPath == PathDirname(c.res.path)
        t == [c EXCEPT !.touched = Touch(c, "mkdir", dirPath)]
    IN  /\ c.op = "write_file" /\ c.pc = "mkdir"
        /\ IF CanMkdir(fsys, Loc(dirPath))
           THEN ResumeFs(i, [t EXCEPT !.pc = "writeFile"], MkdirP(fsys, Loc(dirPath)))
           ELSE Resume(i, Caught(t, "Error writing file: ", "ENOTDIR"))

\* writeFile resolving the path a second time, against the base directory
\* of the moment
WriteFile_writeFile_resolvesAgain(i) ==
    LET c == calls[i]
        again == resolveSafePath(fileRoot, c.arg)
        p == IF again.ok THEN again.path ELSE c.res.path
        t == [c EXCEPT !.touched = Touch(c, "writeFile", p)]
    IN  /\ c.op = "write_file" /\ c.pc = "writeFile"
        /\ IF CanWriteFile(fsys, p)
           THEN Written(i, [t EXCEPT !.pc = "done",
                    !.resp = Answer("ok", "Successfully wrote to file: ", "", c.arg)],
                    PutFile(fsys, Loc(p), Utf8Encode(c.content)))
           ELSE Resume(i, Caught(t, "Error writing file: ",
                    IF Lookup(fsys, p) = "dir" THEN "EISDIR" ELSE "ENOENT"))

WriteFile_writeFile(i) ==
    LET c == calls[i]
        p == c.res.path
        t == [c EXCEPT !.touched = Touch(c, "writeFile", p)]
    IN  /\ c.op = "write_file" /\ c.pc = "writeFile"
        /\ IF CanWriteFile(fsys, p)
           THEN Written(i, [t EXCEPT !.pc = "done",
                    !.resp = Answer("ok", "Successfully wrote to file: ", "", c.arg)],
                    PutFile(fsys, Loc(p), Utf8Encode(c.content)))
           ELSE Resume(i, Caught(t, "Error writing file: ",
                    IF Lookup(fsys, p) = "dir" THEN "EISDIR" ELSE "ENOENT"))

DeleteFile_call(i, filePath) ==
    PathCall(i, "delete_file", filePath, <<>>, "stat", "Error deleting file: ")

\* a delete_file that goes on to the forced removal when nothing is there
DeleteFile_stat_force(i) ==
    LET c == calls[i]
        p == c.res.path
        t == [c EXCEPT !.touched = Touch(c, "stat", p)]
    IN  /\ c.op = "delete_file" /\ c.pc = "stat"
        /\ Resume(i, [t EXCEPT !.pc =
                IF Lookup(fsys, p) = "file" THEN "unlink" ELSE "rm"])

DeleteFile_stat(i) ==
    LET c == calls[i]
        p == c.res.path
        t == [c EXCEPT !.touched = Touch(c, "stat", p)]
    IN  /\ c.op = "delete_file" /\ c.pc = "stat"
        /\ IF Lookup(fsys, p) = "missing"
           THEN Resume(i, Caught(t, "Error deleting file: ", "ENOENT"))
           ELSE Resume(i, [t EXCEPT !.pc =
                    IF Lookup(fsys, p) = "dir" THEN "rm" ELSE "unlink"])

\* fs.rm with force never fails on a missing path
DeleteFile_rm(i) ==
    LET c == calls[i]
        p == c.res.path
        t == [c EXCEPT !.touched = Touch(c, "rm", p)]
    IN  /\ c.op = "delete_file" /\ c.pc = "rm"
        /\ ResumeFs(i, [t EXCEPT !.pc = "done",
                !.resp = Answer("ok", "Successfully deleted: ", "", c.arg)],
                Remove(fsys, Loc(p)))

DeleteFile_unlink(i) ==
    LET c == calls[i]
        p == c.res.path
        t == [c EXCEPT !.touched = Touch(c, "unlink", p)]
    IN  /\ c.op = "delete_file" /\ c.pc = "unlink"
        /\ IF Lookup(fsys, p) = "file"
           THEN ResumeFs(i, [t EXCEPT !.pc = "done",
                    !.resp = Answer("ok", "Successfully deleted: ", "", c.arg)],
                    Remove(fsys, Loc(p)))
           ELSE Resume(i, Caught(t, "Error deleting file: ",
                    IF Lookup(fsys, p) = "dir" THEN "EISDIR" ELSE "ENOENT"))

(***************************************************************************)
(* git_command: executeGitCommand validates, builds the command line and   *)
(* starts the subprocess in GitService.baseDirectory before its await.     *)
(* What the subprocess does to the repository is not modelled.             *)
(***************************************************************************)
\* a git_command that builds and starts the command line without
\* validating the command
GitCommand_call_unvalidated(i, command, shell) ==
    /\ Free(i)
    /\ LET c == [NewCall("git_command", command, <<>>) EXCEPT !.shell = shell] IN
       calls' = [calls EXCEPT ![i] =
           [c EXCEPT !.pc = IF Lookup(fsys, gitRoot) = "dir" THEN "exec" ELSE "spawnError",
                     !.line = fullCommand(command, shell),
                     !.cwd = gitRoot,
                     !.touched = Touch(c, "exec", gitRoot),
                     !.log = Logged(c, "Executing git command")]]
    /\ issued' = issued + 1
    /\ UNCHANGED <<fileRoot, gitRoot, fsys, lastSet, lastWrite, pathVars, cmdVars>>

GitCommand_call(i, command, shell) ==
    /\ Free(i)
    /\ LET c == [NewCall("git_command", command, <<>>) EXCEPT !.shell = shell]
           built == executeGitCommand(command, shell)
       IN  calls' = [calls EXCEPT ![i] =
               IF ~built.ok
               THEN Caught(c, "Error executing git command: ", built.err)
               ELSE [c EXCEPT !.pc = IF Lookup(fsys, gitRoot) = "dir" THEN "exec" ELSE "spawnError",
                              !.line = built.line,
                              !.cwd = gitRoot,
                              !.touched = Touch(c, "exec", gitRoot),
                              !.log = IF shell # ""
                                      THEN c.log \o <<"Executing git command", "Using shell">>
                                      ELSE Logged(c, "Executing git command")]]
    /\ issued' = issued + 1
    /\ UNCHANGED <<fileRoot, gitRoot, fsys, lastSet, lastWrite, pathVars, cmdVars>>

\* the promise of exec settles: it rejects when the subprocess could not be
\* started in its working directory or git exits with a non-zero status
GitCommand_exec(i) ==
    LET c == calls[i] IN
    /\ c.op = "git_command" /\ c.pc \in {"exec", "spawnError"}
    /\ \E exitCode \in {0, 1} :
           IF c.pc = "exec" /\ exitCode = 0
           THEN Resume(i, [c EXCEPT !.pc = "done",
                    !.log = Logged(c, "Git command executed successfully."),
                    !.resp = Answer("ok",
                        IF c.shell # "" THEN "Command executed using shell:"
                        ELSE "Git command executed:", "", <<>>)])
           ELSE Resume(i, Caught([c EXCEPT !.log = Logged(c, "Error executing git command")],
                    "Error executing git command: ",
                    IF c.pc = "exec" THEN "Command failed" ELSE "ENOENT"))

Next ==
    \E i \in Slots :
        \/ \E p \in SetArgs : SetBaseDirectory_call(i, p) /\ UNCHANGED singleVars
        \/ SetBaseDirectory_mkdir(i) /\ UNCHANGED singleVars
        \/ GetBaseDirectory(i) /\ UNCHANGED singleVars
        \/ \E p \in PathArgs : ListFiles_call(i, p) /\ UNCHANGED singleVars
        \/ ListFiles_readdir(i) /\ UNCHANGED singleVars
        \/ \E p \in PathArgs : ReadFile_call(i, p) /\ UNCHANGED singleVars
        \/ ReadFile_stat(i) /\ UNCHANGED singleVars
        \/ ReadFile_readdir(i) /\ UNCHANGED singleVars
        \/ ReadFile_readFile(i) /\ UNCHANGED singleVars
        \/ \E p \in PathArgs : \E c \in Contents : WriteFile_call(i, p, c) /\ UNCHANGED singleVars
        \/ WriteFile_mkdir(i) /\ UNCHANGED singleVars
        \/ WriteFile_writeFile(i) /\ UNCHANGED singleVars
        \/ \E p \in PathArgs : DeleteFile_call(i, p) /\ UNCHANGED singleVars
        \/ DeleteFile_stat(i) /\ UNCHANGED singleVars
        \/ DeleteFile_rm(i) /\ UNCHANGED singleVars
        \/ DeleteFile_unlink(i) /\ UNCHANGED singleVars
        \/ \E m \in Commands : \E sh \in Shells : GitCommand_call(i, m, sh) /\ UNCHANGED singleVars
        \/ GitCommand_exec(i) /\ UNCHANGED singleVars

Spec == Init /\ [][Next]_vars

(***************************************************************************)
(* The handlers of the single-file server.                                 *)
(***************************************************************************)
\* the slot the transport hands the next request to
SingleFree(i) ==
    /\ sCalls[i].pc \in {"idle", "done"}
    /\ \A j \in 1..(i - 1) : sCalls[j].pc \notin {"idle", "done"}

\* a resolveSafePath that resolves against the directory the server started
\* with
Single_resolveSafePath_startup(requestedPath) ==
    IF IsRootRequest(requestedPath) THEN Resolved(StartupRoot)
    ELSE LET cleanPath == StripLeading(requestedPath)
             normalizedPath == PathNormalize(cleanPath)
         IN  IF Includes(normalizedPath, DotDot)
             THEN Rejected("Directory traversal attempt detected")
             ELSE LET absolutePath == PathJoin(StartupRoot, normalizedPath)
                      relativePath == PathRelative(StartupRoot, absolutePath)
                  IN  IF StartsWith(relativePath, DotDot) \/ PathIsAbsolute(relativePath)
                      THEN Rejected("Path resolves outside the base directory")
                      ELSE Resolved(absolutePath)

\* resolveSafePath of the single-file server: it reads BASE_DIRECTORY
Single_resolveSafePath(requestedPath) ==
    IF IsRootRequest(requestedPath) THEN Resolved(BASE_DIRECTORY)
    ELSE LET cleanPath == StripLeading(requestedPath)
             normalizedPath == PathNormalize(cleanPath)
         IN  IF Includes(normalizedPath, DotDot)
             THEN Rejected("Directory traversal attempt detected")
             ELSE LET absolutePath == PathJoin(BASE_DIRECTORY, normalizedPath)
                      relativePath == PathRelative(BASE_DIRECTORY, absolutePath)
                  IN  IF StartsWith(relativePath, DotDot) \/ PathIsAbsolute(relativePath)
                      THEN Rejected("Path resolves outside the base directory")
                      ELSE Resolved(absolutePath)

\* a handler's catch block: the answer is the prefix and the error message
SingleError(c, prefix, m) ==
    [c EXCEPT !.pc = "done", !.resp = Answer("error", prefix, m, <<>>)]

\* a step of call i of the single-file server that leaves its file system
\* and BASE_DIRECTORY alone
SingleStep(i, c) ==
    /\ sCalls' = [sCalls EXCEPT ![i] = c]
    /\ UNCHANGED <<BASE_DIRECTORY, sFsys>>

\* a step of call i of the single-file server that changes its file system
SingleStepFs(i, c, f) ==
    /\ sCalls' = [sCalls EXCEPT ![i] = c]
    /\ sFsys' = f
    /\ UNCHANGED BASE_DIRECTORY

\* a handler calls resolveSafePath inside its try block, before its first
\* await
SinglePathCall(i, o, requestedPath, content, firstPc, prefix) ==
    /\ SingleFree(i)
    /\ LET c == SingleCall(o, requestedPath, content)
           r == Single_resolveSafePath(requestedPath)
       IN  SingleStep(i, IF r.ok THEN [c EXCEPT !.safePath = r.path, !.pc = firstPc]
                         ELSE SingleError(c, prefix, r.err))

Single_set_base_directory_call(i, newBasePath) ==
    /\ SingleFree(i)
    /\ LET c == SingleCall("set_base_directory", newBasePath, <<>>) IN
       SingleStep(i, IF ~PathIsAbsolute(newBasePath)
                     THEN [c EXCEPT !.pc = "done",
                              !.resp = Answer("error",
                                  "Error: Path must be absolute. Please provide a full path.",
                                  "", <<>>)]
                     ELSE [c EXCEPT !.pc = "mkdir"])

\* ensureBaseDirectoryExists settles, then the rest of the handler runs
Single_set_base_directory_mkdir(i) ==
    LET c == sCalls[i]
        l == Loc(c.arg)
    IN  /\ c.op = "set_base_directory" /\ c.pc = "mkdir"
        /\ IF CanMkdir(sFsys, l)
           THEN /\ sFsys' = MkdirP(sFsys, l)
                /\ BASE_DIRECTORY' = c.arg
                /\ sCalls' = [sCalls EXCEPT ![i] =
                       [c EXCEPT !.pc = "done",
                                 !.resp = Answer("ok", "Base directory successfully set to: ",
                                                 "", BASE_DIRECTORY')]]
           ELSE SingleStep(i, [c EXCEPT !.pc = "done",
                    !.resp = Answer("error",
                        "Error: Could not create or access directory at: ", "", c.arg)])

Single_get_base_directory(i) ==
    /\ SingleFree(i)
    /\ SingleStep(i, [SingleCall("get_base_directory", <<>>, <<>>) EXCEPT
           !.pc = "done",
           !.resp = Answer("ok", "Current BASE_DIRECTORY: ", "", BASE_DIRECTORY)])

Single_list_files_call(i, directory) ==
    SinglePathCall(i, "list_files", directory, <<>>, "readdir", "Error listing files: ")

Single_list_files_readdir(i) ==
    LET c == sCalls[i]
        k == Lookup(sFsys, c.safePath)
    IN  /\ c.op = "list_files" /\ c.pc = "readdir"
        /\ SingleStep(i,
               IF k = "dir"
               THEN [c EXCEPT !.pc = "done",
                        !.resp = [Answer("ok", "Files in ", "", c.arg) EXCEPT
                                     !.entries = Readdir(sFsys, Loc(c.safePath))]]
               ELSE SingleError(c, "Error listing files: ",
                        IF k = "file" THEN "ENOTDIR" ELSE "ENOENT"))

Single_read_file_call(i, filePath) ==
    SinglePathCall(i, "read_file", filePath, <<>>, "stat", "Error reading file: ")

Single_read_file_stat(i) ==
    LET c == sCalls[i]
        k == Lookup(sFsys, c.safePath)
    IN  /\ c.op = "read_file" /\ c.pc = "stat"
        /\ SingleStep(i,
               IF k = "missing" THEN SingleError(c, "Error reading file: ", "ENOENT")
               ELSE [c EXCEPT !.pc = IF k = "dir" THEN "readdir" ELSE "readFile"])

Single_read_file_readdir(i) ==
    LET c == sCalls[i]
        k == Lookup(sFsys, c.safePath)
    IN  /\ c.op = "read_file" /\ c.pc = "readdir"
        /\ SingleStep(i,
               IF k = "dir"
               THEN [c EXCEPT !.pc = "done",
                        !.resp = [Answer("ok", "Directory: ", "", c.arg) EXCEPT
                                     !.entries = Readdir(sFsys, Loc(c.safePath))]]
               ELSE SingleError(c, "Error reading file: ",
                        IF k = "file" THEN "ENOTDIR" ELSE "ENOENT"))

Single_read_file_readFile(i) ==
    LET c == sCalls[i]
        k == Lookup(sFsys, c.safePath)
    IN  /\ c.op = "read_file" /\ c.pc = "readFile"
        /\ SingleStep(i,
               IF k = "file"
               THEN [c EXCEPT !.pc = "done",
                        !.resp = [Answer("ok", "File: ", "", c.arg) EXCEPT
                                     !.content = Utf8Decode(sFsys[Loc(c.safePath)].content)]]
               ELSE SingleError(c, "Error reading file: ",
                        IF k = "dir" THEN "EISDIR" ELSE "ENOENT"))

Single_write_file_call(i, filePath, content) ==
    SinglePathCall(i, "write_file", filePath, content, "mkdir", "Error writing file: ")

Single_write_file_mkdir(i) ==
    LET c == sCalls[i]
        dirPath == PathDirname(c.safePath)
    IN  /\ c.op = "write_file" /\ c.pc = "mkdir"
        /\ IF CanMkdir(sFsys, Loc(dirPath))
           THEN SingleStepFs(i, [c EXCEPT !.pc = "writeFile"], MkdirP(sFsys, Loc(dirPath)))
           ELSE SingleStep(i, SingleError(c, "Error writing file: ", "ENOTDIR"))

Single_write_file_writeFile(i) ==
    LET c == sCalls[i] IN
    /\ c.op = "write_file" /\ c.pc = "writeFile"
    /\ IF CanWriteFile(sFsys, c.safePath)
       THEN SingleStepFs(i, [c EXCEPT !.pc = "done",
                !.resp = Answer("ok", "Successfully wrote to file: ", "", c.arg)],
                PutFile(sFsys, Loc(c.safePath), Utf8Encode(c.content)))
       ELSE SingleStep(i, SingleError(c, "Error writing file: ",
                IF Lookup(sFsys, c.safePath) = "dir" THEN "EISDIR" ELSE "ENOENT"))

Single_delete_file_call(i, filePath) ==
    SinglePathCall(i, "delete_file", filePath, <<>>, "stat", "Error deleting file: ")

Single_delete_file_stat(i) ==
    LET c == sCalls[i]
        k == Lookup(sFsys, c.safePath)
    IN  /\ c.op = "delete_file" /\ c.pc = "stat"
        /\ SingleStep(i,
               IF k = "missing" THEN SingleError(c, "Error deleting file: ", "ENOENT")
               ELSE [c EXCEPT !.pc = IF k = "dir" THEN "rm" ELSE "unlink"])

Single_delete_file_rm(i) ==
    LET c == sCalls[i] IN
    /\ c.op = "delete_file" /\ c.pc = "rm"
    /\ SingleStepFs(i, [c EXCEPT !.pc = "done",
           !.resp = Answer("ok", "Successfully deleted: ", "", c.arg)],
           Remove(sFsys, Loc(c.safePath)))

Single_delete_file_unlink(i) ==
    LET c == sCalls[i]
        k == Lookup(sFsys, c.safePath)
    IN  /\ c.op = "delete_file" /\ c.pc = "unlink"
        /\ IF k = "file"
           THEN SingleStepFs(i, [c EXCEPT !.pc = "done",
                    !.resp = Answer("ok", "Successfully deleted: ", "", c.arg)],
                    Remove(sFsys, Loc(c.safePath)))
           ELSE SingleStep(i, SingleError(c, "Error deleting file: ",
                    IF k = "dir" THEN "EISDIR" ELSE "ENOENT"))

(***************************************************************************)
(* The two servers side by side: started on the same base directory and    *)
(* the same tree, each request is handed to both, and each primitive       *)
(* settles in both in the same order.                                      *)
(***************************************************************************)
\* both servers started on the same tree
InitBoth ==
    /\ InitServer
    /\ startMcpServer(fsys)
    /\ pRoot = StartupRoot /\ pReq = <<>> /\ pOut = NotCalled /\ pPc = "off"
    /\ gCommand = <<>> /\ gShell = "" /\ gOut = NotBuilt /\ gPc = "off"

NextBoth ==
    \E i \in Slots :
        \/ \E p \in SetArgs : SetBaseDirectory_call(i, p) /\ Single_set_base_directory_call(i, p)
        \/ SetBaseDirectory_mkdir(i) /\ Single_set_base_directory_mkdir(i)
        \/ GetBaseDirectory(i) /\ Single_get_base_directory(i)
        \/ \E p \in PathArgs : ListFiles_call(i, p) /\ Single_list_files_call(i, p)
        \/ ListFiles_readdir(i) /\ Single_list_files_readdir(i)
        \/ \E p \in PathArgs : ReadFile_call(i, p) /\ Single_read_file_call(i, p)
        \/ ReadFile_stat(i) /\ Single_read_file_stat(i)
        \/ ReadFile_readdir(i) /\ Single_read_file_readdir(i)
        \/ ReadFile_readFile(i) /\ Single_read_file_readFile(i)
        \/ \E p \in PathArgs : \E c \in Contents :
               WriteFile_call(i, p, c) /\ Single_write_file_call(i, p, c)
        \/ WriteFile_mkdir(i) /\ Single_write_file_mkdir(i)
        \/ WriteFile_writeFile(i) /\ Single_write_file_writeFile(i)
        \/ \E p \in PathArgs : DeleteFile_call(i, p) /\ Single_delete_file_call(i, p)
        \/ DeleteFile_stat(i) /\ Single_delete_file_stat(i)
        \/ DeleteFile_rm(i) /\ Single_delete_file_rm(i)
        \/ DeleteFile_unlink(i) /\ Single_delete_file_unlink(i)

SpecBoth == InitBoth /\ [][NextBoth]_vars

(***************************************************************************)
(* The two servers compared.                                               *)
(***************************************************************************)
\* the file under "a" in the directory "/s"
C25_Target == <<"/", "s", "/", "a">>

\* C25: started from the same base directory and the same file system and
\* given the same calls of set_base_directory, get_base_directory,
\* list_files, read_file, write_file and delete_file, the single-file
\* server and the service-based server hold the same base directory and
\* the same file system, have answered the same calls, and have given the
\* same response text to each.
C25_SameBehaviour ==
    /\ BASE_DIRECTORY = fileRoot
    /\ sFsys = fsys
    /\ \A i \in Slots :
           /\ sCalls[i].op = calls[i].op
           /\ sCalls[i].arg = calls[i].arg
           /\ (sCalls[i].pc = "done") = (calls[i].pc = "done")
           /\ sCalls[i].resp = calls[i].resp

\* both servers have moved to "/s" and both have answered a write_file of
\* "a" with success, the file being in both file systems
C25_Witness ==
    /\ BASE_DIRECTORY = <<"/", "s">> /\ fileRoot = <<"/", "s">>
    /\ issued = 2
    /\ \E i \in Slots :
           /\ sCalls[i].op = "write_file" /\ calls[i].op = "write_file"
           /\ sCalls[i].pc = "done" /\ calls[i].pc = "done"
           /\ sCalls[i].resp.kind = "ok" /\ calls[i].resp.kind = "ok"
           /\ sCalls[i].arg = <<"a">>
    /\ Lookup(sFsys, C25_Target) = "file"
    /\ Lookup(fsys, C25_Target) = "file"

(***************************************************************************)
(* Properties of the base directory and the tool handlers.                 *)
(***************************************************************************)
PathOps == {"list_files", "read_file", "write_file", "delete_file"}

\* the step takes set_base_directory(p) into slot i
StartsSet(i) ==
    calls'[i].id # calls[i].id /\ calls'[i].op = "set_base_directory"

\* the step resumes the set_base_directory call of slot i after its mkdir
\* and returns
ReturnsSet(i) ==
    /\ calls[i].op = "set_base_directory" /\ calls[i].pc = "mkdir"
    /\ calls'[i].pc = "done"

\* C6: set_base_directory with a path that is not absolute answers with an
\* error at once, hands nothing to the file system and leaves the base
\* directory of FileService and of GitService as it was.
C6_RelativeRootRejected ==
    [][\A i \in Slots :
          (StartsSet(i) /\ ~PathIsAbsolute(calls'[i].arg)) =>
              /\ calls'[i].pc = "done"
              /\ calls'[i].resp.kind = "error"
              /\ calls'[i].touched = {}
              /\ fsys' = fsys
              /\ fileRoot' = fileRoot
              /\ gitRoot' = gitRoot]_vars

\* a set_base_directory call with a relative path has been answered
C6_Witness ==
    \E i \in Slots :
        /\ calls[i].op = "set_base_directory" /\ calls[i].pc = "done"
        /\ ~PathIsAbsolute(calls[i].arg)
        /\ calls[i].resp.kind = "error"

\* C7 as stated: when the directory of an absolute path could not be
\* created, the call answers with an error and the stored base directory is
\* the one that was stored when the call was made.
C7_RootAsBeforeCall ==
    [][\A i \in Slots :
          (ReturnsSet(i) /\ ~IsDir(fsys', Loc(calls[i].arg))) =>
              /\ calls'[i].resp.kind = "error"
              /\ fileRoot' = calls[i].startRoot
              /\ gitRoot' = calls[i].startRoot]_vars

\* C7 as amended: when the directory of an absolute path could not be
\* created, the call answers with an error and its return leaves the base
\* directory as it was just before; the base directory changes only in the
\* step in which a set_base_directory call returns success, to that call's
\* path, whose directory has been created.
C7_FailedCreationKeepsRoot ==
    [][/\ \A i \in Slots :
             (ReturnsSet(i) /\ ~IsDir(fsys', Loc(calls[i].arg))) =>
                 /\ calls'[i].resp.kind = "error"
                 /\ fileRoot' = fileRoot
                 /\ gitRoot' = gitRoot
       /\ (fileRoot' # fileRoot \/ gitRoot' # gitRoot) =>
             \E i \in Slots :
                 /\ ReturnsSet(i)
                 /\ calls'[i].resp.kind = "ok"
                 /\ fileRoot' = calls[i].arg
                 /\ gitRoot' = calls[i].arg
                 /\ IsDir(fsys', Loc(calls[i].arg))]_vars

\* a set_base_directory call with an absolute path has failed on a file in
\* the way
C7_Witness ==
    \E i \in Slots :
        /\ calls[i].op = "set_base_directory" /\ calls[i].pc = "done"
        /\ PathIsAbsolute(calls[i].arg)
        /\ calls[i].resp.kind = "error"
        /\ IsFile(fsys, Loc(calls[i].arg))
        /\ fileRoot # calls[i].arg

\* C8: the stored base directory is the path of the last set_base_directory
\* that answered success; get_base_directory answers with it, and every
\* list, read, write or delete call resolves its path against it, that is
\* against the directory in force when the call started.
C8_SetTakesEffect ==
    /\ fileRoot = lastSet
    /\ \A i \in Slots :
          LET c == calls[i] IN
          /\ c.op \in PathOps => c.res = resolveSafePath(c.startRoot, c.arg)
          /\ c.op = "get_base_directory" => c.resp.path = c.startRoot

\* a write that started after a successful set_base_directory went to the
\* new base directory
C8_Witness ==
    \E i \in Slots :
        /\ calls[i].op = "write_file" /\ calls[i].pc = "done"
        /\ calls[i].resp.kind = "ok"
        /\ calls[i].startRoot # StartupRoot
        /\ calls[i].res.path = PathJoin(calls[i].startRoot, calls[i].arg)
        /\ IsFile(fsys, Loc(calls[i].res.path))

\* the path a call started under base directory r hands to primitive prim
PathFor(c, prim) ==
    LET safePath == resolveSafePath(c.startRoot, c.arg).path IN
    IF prim = "mkdir" THEN PathDirname(safePath) ELSE safePath

\* C9: every file-system step of a list, read, write or delete call uses
\* the path resolved against the base directory in force when the call
\* started, and a git subprocess runs in that directory, also when the
\* base directory has been replaced before the step.
C9_NoMidFlightSwap ==
    \A i \in Slots :
        \A t \in calls[i].touched :
            /\ calls[i].op \in PathOps => t.path = PathFor(calls[i], t.prim)
            /\ calls[i].op = "git_command" => t.path = calls[i].startRoot

\* a write whose writeFile ran after the base directory had been replaced
C9_Witness ==
    \E i \in Slots :
        /\ calls[i].op = "write_file" /\ calls[i].pc = "done"
        /\ calls[i].resp.kind = "ok"
        /\ \E t \in calls[i].touched :
              t.prim = "writeFile" /\ t.root # calls[i].startRoot

\* C10: the stored base directory is an absolute path and its directory
\* exists, after any sequence of tool calls.
C10_RootInvariant ==
    /\ PathIsAbsolute(fileRoot)
    /\ IsDir(fsys, Loc(fileRoot))

\* call i is a git_command call taken in this step
StartsGit(i) == calls'[i].id # calls[i].id /\ calls'[i].op = "git_command"

\* C13: the subprocess of a git_command call is started in the base
\* directory that get_base_directory would return at the moment the call
\* starts, which is the directory of the last successful
\* set_base_directory; the call keeps that working directory.
C13_GitRunsInRoot ==
    [][\A i \in Slots :
          /\ StartsGit(i) /\ calls'[i].pc # "done" =>
                /\ calls'[i].cwd = fileRoot
                /\ calls'[i].cwd = calls'[i].startRoot
                /\ calls'[i].touched = {[prim |-> "exec", path |-> fileRoot, root |-> fileRoot]}
          /\ calls'[i].id = calls[i].id /\ calls[i].op = "git_command" =>
                /\ calls'[i].cwd = calls[i].cwd
                /\ calls'[i].touched = calls[i].touched]_vars

\* git has run to success in a directory adopted by an earlier
\* set_base_directory
C13_Witness ==
    \E i \in Slots :
        /\ calls[i].op = "git_command" /\ calls[i].pc = "done"
        /\ calls[i].resp.kind = "ok"
        /\ calls[i].cwd = <<"/", "s">>
        /\ fileRoot = <<"/", "s">>

\* the string a file written with c reads back as
ReadBack(c) == [k \in 1..Len(c) |-> IF c[k] = "HS" THEN "FFFD" ELSE c[k]]

\* in the state reached, call j is a read_file that has returned, was
\* received right after the last successful write_file had returned with
\* no call in flight, is the only call received since, and resolved to the
\* path that write resolved to
ReadsBack(j) ==
    LET r == calls'[j]
        w == lastWrite'
    IN  /\ r.op = "read_file" /\ r.pc = "done"
        /\ w.id > 0 /\ w.alone
        /\ r.id = w.id + 1 /\ issued' = r.id
        /\ r.res.ok /\ r.res.path = w.path

\* C14 as stated: every write_file whose path resolves inside the root
\* succeeds, whatever is at the path, and the read_file that follows it
\* returns exactly the string written.
C14_RoundTrip ==
    [][/\ \A i \in Slots :
             calls[i].op = "write_file" /\ calls[i].res.ok
             /\ calls[i].pc # "done" /\ calls'[i].pc = "done"
             => calls'[i].resp.kind = "ok"
       /\ \A j \in Slots :
             ReadsBack(j) =>
                /\ calls'[j].resp.kind = "ok" /\ calls'[j].resp.text = "File: "
                /\ calls'[j].resp.content = lastWrite'.content]_vars

\* C14 amended: write_file fails with an error text when a file is among
\* the ancestors of the path or a directory (the root itself included) is
\* at the path; otherwise it succeeds, the file then holds the encoded
\* string and nothing else, and everything else is unchanged; the
\* read_file that follows returns the string written, an unpaired
\* surrogate in it read back as the replacement character.
C14_RoundTripOnFiles ==
    [][/\ \A i \in Slots :
             LET c == calls[i]
                 d == calls'[i]
                 p == c.res.path
                 l == Loc(p)
                 above == Prefixes(l) \ {l}
             IN  c.op = "write_file" /\ d.id = c.id =>
                    /\ c.pc = "mkdir" /\ d.pc # "mkdir" =>
                          IF \E a \in above : IsFile(fsys, a)
                          THEN d.pc = "done" /\ d.resp.kind = "error" /\ fsys' = fsys
                          ELSE d.pc = "writeFile"
                    /\ c.pc = "writeFile" /\ d.pc # "writeFile" =>
                          IF IsDir(fsys, l) \/ p[Len(p)] = "/" \/ \E a \in above : ~IsDir(fsys, a)
                          THEN d.pc = "done" /\ d.resp.kind = "error" /\ fsys' = fsys
                          ELSE /\ d.pc = "done" /\ d.resp.kind = "ok"
                               /\ DOMAIN fsys' = DOMAIN fsys \cup {l}
                               /\ fsys'[l] = [isDir |-> FALSE, content |-> Utf8Encode(c.content)]
                               /\ \A x \in DOMAIN fsys \ {l} : fsys'[x] = fsys[x]
       /\ \A j \in Slots :
             ReadsBack(j) =>
                /\ calls'[j].resp.kind = "ok" /\ calls'[j].resp.text = "File: "
                /\ calls'[j].resp.content = ReadBack(lastWrite'.content)
                /\ "HS" \notin {lastWrite'.content[k] : k \in 1..Len(lastWrite'.content)}
                      => calls'[j].resp.content = lastWrite'.content]_vars

\* a read_file has returned the string that the write_file before it put
\* in place of what the file held
C14_Witness ==
    \E j \in Slots :
        /\ calls[j].op = "read_file" /\ calls[j].pc = "done"
        /\ lastWrite.alone /\ calls[j].id = lastWrite.id + 1
        /\ calls[j].arg = <<"a">> /\ calls[j].res.path = lastWrite.path
        /\ calls[j].resp.kind = "ok"
        /\ calls[j].resp.content = <<"x">>
        /\ lastWrite.content = <<"x">>

\* C15: when delete_file examines a path inside the root and nothing is
\* there, the call fails with the not-found error text, not a confirmation,
\* and the file system and the base directory stay as they are.
C15_DeleteMissingFails ==
    [][\A i \in Slots :
          LET c == calls[i]
              d == calls'[i]
          IN  /\ c.op = "delete_file" /\ d.id = c.id
              /\ c.pc = "stat" /\ d.pc # "stat"
              /\ ~Exists(fsys, Loc(c.res.path))
              => /\ d.pc = "done"
                 /\ d.resp.kind = "error"
                 /\ d.resp.text = "Error deleting file: "
                 /\ d.resp.detail = "ENOENT"
                 /\ fsys' = fsys
                 /\ fileRoot' = fileRoot /\ gitRoot' = gitRoot]_vars

\* delete_file of a name that the root does not hold has answered not found
C15_Witness ==
    \E i \in Slots :
        /\ calls[i].op = "delete_file" /\ calls[i].pc = "done"
        /\ calls[i].arg = <<"a">>
        /\ calls[i].res.ok
        /\ calls[i].resp.kind = "error" /\ calls[i].resp.detail = "ENOENT"
        /\ {t.prim : t \in calls[i].touched} = {"stat"}

\* C16: delete_file on a directory removes the directory and everything
\* under it and nothing else, so its parent no longer lists it and every
\* other file and directory is as before; delete_file on a file removes
\* just that file; a delete_file that fails removes nothing.
C16_DeleteRemovesSubtree ==
    [][\A i \in Slots :
          LET c == calls[i]
              d == calls'[i]
              l == Loc(c.res.path)
              Under(x) == Len(x) >= Len(l) /\ SubSeq(x, 1, Len(l)) = l
          IN  c.op = "delete_file" /\ d.id = c.id =>
                 /\ c.pc = "stat" /\ d.pc # "stat" /\ IsDir(fsys, l) =>
                       d.pc = "rm" /\ fsys' = fsys
                 /\ c.pc = "stat" /\ d.pc # "stat" /\ IsFile(fsys, l) =>
                       d.pc = "unlink" /\ fsys' = fsys
                 /\ c.pc = "rm" /\ d.pc # "rm" =>
                       /\ d.pc = "done" /\ d.resp.kind = "ok"
                       /\ DOMAIN fsys' = {x \in DOMAIN fsys : ~Under(x)}
                       /\ \A x \in DOMAIN fsys' : fsys'[x] = fsys[x]
                       /\ Len(l) > 0 =>
                             \A e \in Readdir(fsys', SubSeq(l, 1, Len(l) - 1)) :
                                 e.name # l[Len(l)]
                 /\ c.pc = "unlink" /\ d.pc # "unlink" =>
                       /\ d.pc = "done"
                       /\ IF IsFile(fsys, l)
                          THEN /\ d.resp.kind = "ok"
                               /\ DOMAIN fsys' = DOMAIN fsys \ {l}
                               /\ \A x \in DOMAIN fsys' : fsys'[x] = fsys[x]
                          ELSE d.resp.kind = "error" /\ fsys' = fsys]_vars

\* delete_file has removed a directory together with the file that an
\* earlier write_file had put in it
C16_Witness ==
    LET r == Loc(StartupRoot) IN
    \E i \in Slots :
        /\ calls[i].op = "delete_file" /\ calls[i].pc = "done"
        /\ calls[i].arg = <<"a">> /\ calls[i].resp.kind = "ok"
        /\ "rm" \in {t.prim : t \in calls[i].touched}
        /\ lastWrite.id > 0 /\ Loc(lastWrite.path) = r \o << <<"a">>, <<"b">> >>
        /\ calls[i].id > lastWrite.id
        /\ ~Exists(fsys, Append(r, <<"a">>))
        /\ ~Exists(fsys, r \o << <<"a">>, <<"b">> >>)
        /\ IsDir(fsys, r)

\* the entries of the directory at location l, each with its tag
Listing(f, l) ==
    {[name |-> x[Len(x)], isDirectory |-> f[x].isDir] :
        x \in {y \in DOMAIN f : Len(y) = Len(l) + 1 /\ \A k \in 1..Len(l) : y[k] = l[k]}}

\* C17: read_file on a directory answers with the directory's listing,
\* the entries and tags that list_files answers with in the same state of
\* the file system; read_file on a file answers with its whole content; a
\* listing is answered only for a directory and content only for a file.
C17_ReadDirectoryAsListing ==
    [][\A i \in Slots :
          LET c == calls[i]
              d == calls'[i]
              l == Loc(c.res.path)
          IN  /\ c.op = "read_file" /\ d.id = c.id /\ d.pc # c.pc =>
                    /\ c.pc = "stat" /\ IsDir(fsys, l) => d.pc = "readdir"
                    /\ c.pc = "stat" /\ IsFile(fsys, l) => d.pc = "readFile"
                    /\ c.pc = "readdir" /\ IsDir(fsys, l) =>
                          /\ d.pc = "done" /\ d.resp.kind = "ok"
                          /\ d.resp.text = "Directory: "
                          /\ d.resp.entries = Listing(fsys, l)
                    /\ c.pc = "readFile" /\ IsFile(fsys, l) =>
                          /\ d.pc = "done" /\ d.resp.kind = "ok"
                          /\ d.resp.text = "File: "
                          /\ d.resp.content = Utf8Decode(fsys[l].content)
                    /\ d.resp.text = "Directory: " => IsDir(fsys, l)
                    /\ d.resp.text = "File: " => IsFile(fsys, l)
                    /\ d.resp.kind = "ok" => d.resp.text \in {"Directory: ", "File: "}
              /\ c.op = "list_files" /\ d.id = c.id /\ d.pc # c.pc /\ IsDir(fsys, l) =>
                    /\ d.pc = "done" /\ d.resp.kind = "ok"
                    /\ d.resp.entries = Listing(fsys, l)]_vars

\* read_file of the root has answered with a listing that tags a
\* directory
C17_Witness ==
    \E i \in Slots :
        /\ calls[i].op = "read_file" /\ calls[i].pc = "done"
        /\ calls[i].arg = <<>>
        /\ calls[i].resp.kind = "ok" /\ calls[i].resp.text = "Directory: "
        /\ calls[i].resp.entries = {[name |-> <<"a">>, isDirectory |-> TRUE]}

ErrorTexts ==
    { "Error: Path must be absolute. Please provide a full path.",
      "Error: Could not create or access directory at: ",
      "Error listing files: ", "Error reading file: ", "Error writing file: ",
      "Error deleting file: ", "Error executing git command: " }

\* the call met a failure: its path left the root, its new root was not
\* absolute, its command was rejected, or a failure of a primitive was
\* logged
Failed(c) ==
    \/ c.op \in PathOps /\ ~c.res.ok
    \/ c.op = "set_base_directory" /\ ~PathIsAbsolute(c.arg)
    \/ c.op = "git_command" /\ ~isValidGitCommand(c.arg)
    \/ \E k \in 1..Len(c.log) :
          c.log[k] \in {"Error in handler", "Error ensuring directory",
                        "Path resolution error", "Error executing git command"}

\* C18: no call of any of the seven operations ends with an exception
\* thrown out of its handler; a call that has ended has an answer, a call
\* that met a failure has an error text as its answer, and a slot whose
\* call has ended takes the next call.
C18_FailuresAnswered ==
    \A i \in Slots :
        LET c == calls[i] IN
        /\ c.pc # "thrown"
        /\ c.pc = "done" => c.resp.kind \in {"ok", "error"}
        /\ c.pc = "done" /\ Failed(c) =>
              c.resp.kind = "error" /\ c.resp.text \in ErrorTexts
        /\ c.pc = "done" /\ c.resp.kind = "ok" => c.resp.text \notin ErrorTexts
        /\ c.pc = "done" /\ issued < MaxCalls => \E j \in Slots : Free(j)

\* a primitive's failure has been answered with an error text and the
\* server is ready for the next call
C18_Witness ==
    \E i \in Slots :
        /\ calls[i].pc = "done" /\ calls[i].op = "read_file"
        /\ calls[i].resp.kind = "error" /\ calls[i].resp.detail = "ENOENT"
        /\ calls[i].resp.text = "Error reading file: "
        /\ issued < MaxCalls /\ Free(i)

OutcomeEntries ==
    { "Error in handler", "Error ensuring directory",
      "Base directory changed", "Git command executed successfully." }

\* the log entries of call c begin with the entries of xs
Extends(xs, c) == Len(xs) <= Len(c.log) /\ SubSeq(c.log, 1, Len(xs)) = xs

\* C19 as stated: the log receives an entry for every invocation and, once
\* the call has ended, an entry for its outcome, success or failure; what
\* has been logged stays.
C19_AuditTrail ==
    [][\A i \in Slots :
          LET c == calls[i]
              d == calls'[i]
          IN  /\ d.id = c.id => Extends(c.log, d)
              /\ d.pc # "idle" => Extends(<<"called">>, d)
              /\ d.pc = "done" =>
                    \E k \in 2..Len(d.log) : d.log[k] \in OutcomeEntries]_vars

\* C19 amended: the log receives an entry for every invocation; a failure
\* is logged, except the rejection of a relative path by
\* set_base_directory; a success is logged by set_base_directory and
\* git_command only, so a successful get_base_directory, list_files,
\* read_file, write_file or delete_file leaves the invocation entry alone;
\* what has been logged stays.
C19_LogsCallsAndFailures ==
    [][\A i \in Slots :
          LET c == calls[i]
              d == calls'[i]
              last == d.log[Len(d.log)]
              relative == d.op = "set_base_directory" /\ ~PathIsAbsolute(d.arg)
          IN  /\ d.id = c.id => Extends(c.log, d)
              /\ d.pc # "idle" => Extends(<<"called">>, d)
              /\ d.pc = "done" /\ d.resp.kind = "error" /\ ~relative =>
                    Len(d.log) > 1 /\ last \in {"Error in handler", "Error ensuring directory"}
              /\ d.pc = "done" /\ relative => d.log = <<"called">>
              /\ d.pc = "done" /\ d.resp.kind = "ok" =>
                    CASE d.op = "set_base_directory" -> last = "Base directory changed"
                      [] d.op = "git_command" -> last = "Git command executed successfully."
                      [] OTHER -> d.log = <<"called">>]_vars

\* a delete_file that left the root has its invocation and its failure in
\* the log
C19_Witness ==
    \E i \in Slots :
        /\ calls[i].op = "delete_file" /\ calls[i].pc = "done"
        /\ calls[i].resp.kind = "error"
        /\ calls[i].log = <<"called", "Path resolution error", "Error in handler">>

\* C20: list_files, read_file, write_file and delete_file resolve their
\* path when the call is taken, before any primitive of the file system;
\* a call whose path leaves the root ends there with an error text,
\* invokes no primitive then or later, and leaves the file system and the
\* base directory as they are; every primitive a call invokes is handed
\* the resolved path or its parent directory.
C20_GuardBeforeIO ==
    [][\A i \in Slots :
          LET c == calls[i]
              d == calls'[i]
              r == resolveSafePath(fileRoot, d.arg)
          IN  d.op \in PathOps =>
                 /\ d.id # c.id =>
                       /\ d.res = r
                       /\ d.touched = {}
                       /\ fsys' = fsys /\ fileRoot' = fileRoot /\ gitRoot' = gitRoot
                       /\ ~r.ok => d.pc = "done" /\ d.resp.kind = "error"
                 /\ d.touched # {} =>
                       /\ d.res.ok
                       /\ \A t \in d.touched :
                             t.path \in {d.res.path, PathDirname(d.res.path)}
                 /\ d.id = c.id /\ ~c.res.ok => d = c]_vars

\* a write_file whose path leaves the root has been answered with an
\* error text without any primitive invoked
C20_Witness ==
    \E i \in Slots :
        /\ calls[i].op = "write_file" /\ calls[i].pc = "done"
        /\ calls[i].arg = <<".", ".", "/", "s">>
        /\ ~calls[i].res.ok
        /\ calls[i].res.err = "Directory traversal attempt detected"
        /\ calls[i].touched = {}
        /\ calls[i].resp.kind = "error"

\* C21: git_command validates its command when the call is taken, before
\* any subprocess; a call whose command fails validation ends there with
\* the error text, starts no subprocess then or later, and every subprocess
\* that is started runs the command line built from a command that passed
\* validation.
C21_GuardBeforeExec ==
    [][\A i \in Slots :
          LET c == calls[i]
              d == calls'[i]
          IN  d.op = "git_command" =>
                 /\ d.id # c.id /\ ~isValidGitCommand(d.arg) =>
                       /\ d.pc = "done"
                       /\ d.resp.kind = "error"
                       /\ d.resp.text = "Error executing git command: "
                       /\ d.resp.detail = "Invalid git command"
                       /\ d.touched = {} /\ d.line = <<>>
                 /\ d.id # c.id /\ isValidGitCommand(d.arg) =>
                       "exec" \in {t.prim : t \in d.touched}
                 /\ d.touched # {} =>
                       /\ isValidGitCommand(d.arg)
                       /\ d.line = fullCommand(d.arg, d.shell)
                 /\ d.id = c.id /\ ~isValidGitCommand(c.arg) => d = c]_vars

\* a git_command call with a blocked command has been answered with the
\* error text and no subprocess
C21_Witness ==
    \E i \in Slots :
        /\ calls[i].op = "git_command" /\ calls[i].pc = "done"
        /\ calls[i].arg = <<"c", "o", "n", "f", "i", "g">>
        /\ calls[i].resp.kind = "error"
        /\ calls[i].resp.detail = "Invalid git command"
        /\ calls[i].touched = {}

\* C22: FileService and GitService hold the same base directory in every
\* state in which a handler can run: they start equal, a successful
\* set_base_directory replaces both in the one step in which it returns,
\* and a failing one replaces neither.
C22_SingleRoot ==
    /\ fileRoot = gitRoot
    /\ [][/\ fileRoot' = gitRoot'
          /\ \A i \in Slots :
                /\ ReturnsSet(i) /\ calls'[i].resp.kind = "ok" =>
                      fileRoot' = calls[i].arg /\ gitRoot' = calls[i].arg
                /\ ReturnsSet(i) /\ calls'[i].resp.kind = "error" =>
                      fileRoot' = fileRoot /\ gitRoot' = gitRoot
                /\ StartsSet(i) => fileRoot' = fileRoot /\ gitRoot' = gitRoot]_vars

\* both services hold the directory of a successful set_base_directory
\* while another call awaits a primitive
C22_Witness ==
    /\ fileRoot = <<"/", "s">> /\ gitRoot = <<"/", "s">>
    /\ \E i \in Slots :
          /\ calls[i].op = "set_base_directory" /\ calls[i].pc = "done"
          /\ calls[i].resp.kind = "ok" /\ calls[i].arg = <<"/", "s">>
    /\ \E j \in Slots : calls[j].pc \notin {"idle", "done"}

\* C23: when two set_base_directory calls are the only calls received and
\* both succeed, the base directory after both have returned is the path of
\* the one whose directory creation settled last, whichever was received
\* first; every successful set_base_directory stores its own path and logs
\* as the old one the directory that was stored just before.
C23_LastCompletionWins ==
    [][\A i \in Slots :
          ReturnsSet(i) /\ calls'[i].resp.kind = "ok" =>
              /\ fileRoot' = calls[i].arg
              /\ calls'[i].oldPath = fileRoot
              /\ \A j \in Slots \ {i} :
                    /\ calls[j].op = "set_base_directory" /\ calls[j].pc = "done"
                    /\ calls[j].resp.kind = "ok" /\ issued = 2
                    => /\ calls'[i].oldPath = calls[j].arg
                       /\ fileRoot' \in {calls[i].arg, calls[j].arg}
                       /\ fileRoot' = calls[i].arg]_vars

\* two overlapping calls have both succeeded and the base directory is the
\* path of the one received first, which settled last
C23_Witness ==
    \E i \in Slots : \E j \in Slots :
        /\ calls[i].op = "set_base_directory" /\ calls[j].op = "set_base_directory"
        /\ calls[i].pc = "done" /\ calls[j].pc = "done"
        /\ calls[i].resp.kind = "ok" /\ calls[j].resp.kind = "ok"
        /\ calls[i].id = 1 /\ calls[j].id = 2
        /\ calls[i].arg # calls[j].arg
        /\ fileRoot = calls[i].arg
        /\ calls[i].oldPath = calls[j].arg
        /\ calls[j].oldPath = StartupRoot

(***************************************************************************)
(* Path resolution on its own: one call of resolveSafePath on a base       *)
(* directory and a requested path drawn from the bounded sets.             *)
(***************************************************************************)
\* absolute base directories
PathRoots == {r \in StringsUpTo(MaxRootLen) : PathIsAbsolute(r)}

PathRequests == StringsUpTo(MaxLen)

InitPath ==
    /\ ServerStarted(BareTree) /\ startMcpServer(BareTree)
    /\ pRoot \in PathRoots
    /\ pReq \in PathRequests
    /\ pOut = NotCalled
    /\ pPc = "call"
    /\ gCommand = <<>> /\ gShell = "" /\ gOut = NotBuilt /\ gPc = "off"

ResolveCall ==
    /\ pPc = "call"
    /\ pOut' = resolveSafePath(pRoot, pReq)
    /\ pPc' = "done"
    /\ UNCHANGED <<pRoot, pReq, cmdVars, serverVars, singleVars>>

NextPath == ResolveCall

SpecPath == InitPath /\ [][NextPath]_vars

(***************************************************************************)
(* Properties of path resolution.                                          *)
(***************************************************************************)
\* xs is a prefix of ys
IsPrefixOf(xs, ys) == Len(xs) <= Len(ys) /\ SubSeq(ys, 1, Len(xs)) = xs

\* p is lexically base itself or a descendant of it
LexicallyWithin(base, p) == IsPrefixOf(ResolveSegs(base), ResolveSegs(p))

\* C1 (confinement): whatever resolveSafePath returns is lexically the base
\* directory or a descendant of it, and its path relative to the base
\* directory neither begins with ".." nor is absolute.
C1_Confinement ==
    (pPc = "done" /\ pOut.ok) =>
        /\ PathIsAbsolute(pOut.path)
        /\ LexicallyWithin(pRoot, pOut.path)
        /\ ~StartsWith(PathRelative(pRoot, pOut.path), DotDot)
        /\ ~PathIsAbsolute(PathRelative(pRoot, pOut.path))

\* an absolute-looking request resolved to a strict descendant of the base
C1_Witness ==
    /\ pPc = "done" /\ pOut.ok
    /\ PathIsAbsolute(pReq)
    /\ Len(ResolveSegs(pOut.path)) > Len(ResolveSegs(pRoot))

\* the non-empty segments of a normalized relative path
NameSegs(n) == SelectSeq(Split(n), LAMBDA g : g # <<>> /\ g # <<".">>)

HasParentSegment(n) == \E i \in 1..Len(NameSegs(n)) : NameSegs(n)[i] = DotDot

\* C2: a request that, stripped and normalized, is a strict descendant of
\* the base directory and has no ".." segment resolves to the base directory
\* joined with the normalized path, whatever characters its names contain.
C2_DescendantAlwaysResolves ==
    LET n == PathNormalize(StripLeading(pReq)) IN
    (pPc = "done" /\ Len(NameSegs(n)) > 0 /\ ~HasParentSegment(n)) =>
        /\ pOut.ok
        /\ pOut.path = PathJoin(pRoot, n)
        /\ ~StartsWith(PathRelative(pRoot, pOut.path), DotDot)

\* requestedPath is n >= 0 slashes or backslashes, then a ".." segment,
\* then nothing or further segments
LeadsWithParentSegment(requestedPath) ==
    \E k \in 0..(Len(requestedPath) - 2) :
        /\ \A i \in 1..k : IsSlash(requestedPath[i])
        /\ SubSeq(requestedPath, k + 1, k + 2) = DotDot
        /\ (Len(requestedPath) = k + 2 \/ requestedPath[k + 3] = "/")

\* C3: any number of leading slashes or backslashes followed by a ".."
\* segment is rejected, for every base directory.
C3_LeadingParentRejected ==
    (pPc = "done" /\ LeadsWithParentSegment(pReq)) => ~pOut.ok

\* a rejected request with two stripped characters before the ".." segment
C3_Witness ==
    /\ pPc = "done" /\ ~pOut.ok
    /\ LeadsWithParentSegment(pReq)
    /\ Len(pReq) = 4 /\ IsSlash(pReq[1]) /\ IsSlash(pReq[2])

\* C4: the empty path, a bare slash and a bare backslash resolve to the base
\* directory exactly as it is stored.
C4_RootRequestsReturnRoot ==
    (pPc = "done" /\ pReq \in {<<>>, <<"/">>, <<"\\">>}) =>
        pOut = Resolved(pRoot)

\* a bare backslash resolved against a base directory that is not in normal form
C4_Witness ==
    /\ pPc = "done" /\ pReq = <<"\\">>
    /\ pOut.ok /\ pOut.path = pRoot
    /\ PathNormalize(pRoot) # pRoot

\* C5: a prefix of one or more slashes or backslashes in front of a
\* non-empty path that starts with neither changes nothing: the outcome is
\* that of resolving the path without the prefix.
C5_LeadingSlashesIgnored ==
    pPc = "done" =>
        \A k \in 1..(Len(pReq) - 1) :
            ((\A i \in 1..k : IsSlash(pReq[i])) /\ ~IsSlash(pReq[k + 1])) =>
                pOut = resolveSafePath(pRoot, SubSeq(pReq, k + 1, Len(pReq)))

\* slash, backslash, "a" resolved to the entry "a" of the base directory
C5_Witness ==
    /\ pPc = "done" /\ pReq = <<"/", "\\", "a">>
    /\ pOut.ok /\ pOut.path = PathJoin(pRoot, <<"a">>)

\* C24: for a normalized absolute base directory, a request whose
\* stripped and normalized form holds no '..' also passes the test made
\* after the join: the relative path from the base directory neither
\* starts with '..' nor is absolute; every rejection is the first test's.
C24_SecondCheckNeverRejects ==
    pPc = "done" /\ PathNormalize(pRoot) = pRoot =>
        LET normalizedPath == PathNormalize(StripLeading(pReq))
            relativePath == PathRelative(pRoot, PathJoin(pRoot, normalizedPath))
        IN  /\ pOut.err # "Path resolves outside the base directory"
            /\ ~pOut.ok =>
                  /\ pOut.err = "Directory traversal attempt detected"
                  /\ Includes(normalizedPath, DotDot)
            /\ ~IsRootRequest(pReq) /\ ~Includes(normalizedPath, DotDot) =>
                  /\ ~StartsWith(relativePath, DotDot)
                  /\ ~PathIsAbsolute(relativePath)
                  /\ pOut.ok

\* a request that names a directory and steps back out of it has passed
\* both tests
C24_Witness ==
    /\ pPc = "done"
    /\ pRoot = <<"/", "a">>
    /\ pReq = <<"a", "/", ".", ".">>
    /\ pOut.ok
    /\ pOut.path = <<"/", "a">>

(***************************************************************************)
(* Command building on its own: one call of GitService.executeGitCommand   *)
(* on a command and a shell selector drawn from the bounded sets.          *)
(***************************************************************************)
\* most tokens a drawn command is made of
MaxTokens == 3

CommandTokens ==
    { <<"c", "o", "n", "f", "i", "g">>,
    <<"c", "l", "e", "a", "n", " ", "-", "x", "d", "f">>,
    <<"s", "t", "a", "t", "u", "s">>,
    <<" ">>,
    <<"\t">>,
    <<";">>,
    <<"&">>,
    <<"|">>,
    <<"<">>,
    <<">">>,
    <<"\"">>,
    <<"x">> }

\* every concatenation of at most n tokens
RECURSIVE TokenStrings(_)
TokenStrings(n) ==
    IF n = 0 THEN {<<>>}
    ELSE LET shorter == TokenStrings(n - 1)
         IN  shorter \cup {t \o u : t \in CommandTokens, u \in shorter}

UnsafeExamples ==
    { <<"s", "t", "a", "t", "u", "s", ";", " ", "r", "m", " ", "-", "r", "f", " ", "/">>,
    <<"l", "o", "g", " ", "|", " ", "c", "a", "t">>,
    <<"l", "o", "g", " ", ">", " ", "o", "u", "t", ".", "t", "x", "t">>,
    <<"f", "e", "t", "c", "h", " ", "&", "&", " ", "e", "c", "h", "o", " ", "x">>,
    <<"c", "o", "n", "f", "i", "g", " ", "u", "s", "e", "r", ".", "n", "a", "m", "e", " ", "x">>,
    <<"c", "l", "e", "a", "n", " ", "-", "x", "d", "f">> }

SafeExamples ==
    { <<"s", "t", "a", "t", "u", "s">>,
    <<"l", "o", "g", " ", "-", "-", "o", "n", "e", "l", "i", "n", "e", " ", "-", "n", " ", "5">>,
    <<"b", "r", "a", "n", "c", "h", " ", "-", "a">> }

GitCommands == TokenStrings(MaxTokens) \cup UnsafeExamples \cup SafeExamples

\* the selector unset, the three shells, and a value that names no shell
ShellSelectors == {"", "cmd", "powershell", "bash", "zsh"}

InitCmd ==
    /\ ServerStarted(BareTree) /\ startMcpServer(BareTree)
    /\ pRoot = StartupRoot /\ pReq = <<>> /\ pOut = NotCalled /\ pPc = "off"
    /\ gCommand \in GitCommands
    /\ gShell \in ShellSelectors
    /\ gOut = NotBuilt
    /\ gPc = "call"

ExecuteCall ==
    /\ gPc = "call"
    /\ gOut' = executeGitCommand(gCommand, gShell)
    /\ gPc' = "done"
    /\ UNCHANGED <<gCommand, gShell, pathVars, serverVars, singleVars>>

NextCmd == ExecuteCall

SpecCmd == InitCmd /\ [][NextCmd]_vars

(***************************************************************************)
(* Properties of command building.                                         *)
(***************************************************************************)
MetaChars == {";", "&", "|", "<", ">"}

\* s without the white space at its two ends
RECURSIVE Core(_)
Core(s) ==
    IF s = <<>> THEN s
    ELSE IF IsSpace(Head(s)) THEN Core(Tail(s))
    ELSE IF IsSpace(s[Len(s)]) THEN Core(SubSeq(s, 1, Len(s) - 1))
    ELSE s

AllSpace(s) == \A i \in 1..Len(s) : IsSpace(s[i])

\* C11: a command is rejected exactly when, white space at its ends set
\* aside, it holds one of ; & | < > or starts with config or clean -xdf;
\* the listed unsafe examples are rejected, the listed safe ones accepted,
\* and taking white space off either end never changes the verdict.
C11_GuardVerdict ==
    gPc = "done" =>
        LET t == Core(gCommand)
            n == Len(gCommand)
        IN  /\ ~gOut.ok <=>
                   \/ \E i \in 1..Len(t) : t[i] \in MetaChars
                   \/ StartsWith(t, <<"c", "o", "n", "f", "i", "g">>)
                   \/ StartsWith(t, <<"c", "l", "e", "a", "n", " ", "-", "x", "d", "f">>)
            /\ gCommand \in UnsafeExamples => ~gOut.ok
            /\ gCommand \in SafeExamples => gOut.ok
            /\ \A k \in 0..n : \A m \in 0..(n - k) :
                   AllSpace(SubSeq(gCommand, 1, k)) /\ AllSpace(SubSeq(gCommand, n - m + 1, n))
                   => (isValidGitCommand(SubSeq(gCommand, k + 1, n - m)) <=> gOut.ok)

\* a blocked command with white space on both sides has been rejected
C11_Witness ==
    /\ gPc = "done"
    /\ gCommand = <<" ", "c", "o", "n", "f", "i", "g", "\t">>
    /\ ~gOut.ok
    /\ gOut.err = "Invalid git command"

\* the run-one-command form of each of the three shells
RunOneCommand ==
    [ cmd |-> <<"c", "m", "d", " ", "/", "c">>,
      powershell |-> <<"p", "o", "w", "e", "r", "s", "h", "e", "l", "l", " ", "-", "C", "o", "m", "m", "a", "n", "d">>,
      bash |-> <<"b", "a", "s", "h", " ", "-", "c">> ]

====
